---- MODULE Spec2Model ----
(***************************************************************************)
(* ggshield/scan/scannable.py: the raw patch header parser, the patch body *)
(* splitter, the Files / Commit aggregates and the file-backed Scannable.  *)
(*                                                                         *)
(* A text is a sequence of one-character strings; the two characters that  *)
(* cannot be written in a TLA+ string are the tokens NUL and LF.           *)
(***************************************************************************)
EXTENDS Integers, Sequences, FiniteSets, TLC

NUL == "NUL"
LF  == "LF"

Digits == {"0", "1", "2", "3", "4", "5", "6", "7", "8", "9"}

(***************************************************************************)
(* Python string primitives used by the parser.                            *)
(***************************************************************************)

\* s[i:] with i a 1-based position
Drop(s, i) == SubSeq(s, i, Len(s))

\* s.startswith(pat, i) with i a 1-based position
MatchAt(s, pat, i) ==
    /\ i >= 1
    /\ i + Len(pat) - 1 <= Len(s)
    /\ \A k \in 1..Len(pat) : s[i + k - 1] = pat[k]

\* s.find(pat, from): least 1-based position >= from where pat occurs, 0 if none
RECURSIVE Find(_, _, _)
Find(s, pat, from) ==
    IF from + Len(pat) - 1 > Len(s) THEN 0
    ELSE IF MatchAt(s, pat, from) THEN from
    ELSE Find(s, pat, from + 1)

\* s.split(sep) for a non-empty separator
RECURSIVE StrSplit(_, _)
StrSplit(s, sep) ==
    LET i == Find(s, sep, 1)
    IN  IF i = 0 THEN <<s>>
        ELSE <<SubSeq(s, 1, i - 1)>> \o StrSplit(Drop(s, i + Len(sep)), sep)

\* s.split(sep, 1)
StrSplit1(s, sep) ==
    LET i == Find(s, sep, 1)
    IN  IF i = 0 THEN <<s>>
        ELSE <<SubSeq(s, 1, i - 1), Drop(s, i + Len(sep))>>

\* s.rstrip(chars)
RECURSIVE RStrip(_, _)
RStrip(s, chars) ==
    IF Len(s) > 0 /\ s[Len(s)] \in chars
    THEN RStrip(SubSeq(s, 1, Len(s) - 1), chars)
    ELSE s

\* s.rsplit(" ", 1)[-1]: what follows the last space, the whole of s if none
RECURSIVE LastField(_)
LastField(s) ==
    IF Len(s) = 0 THEN s
    ELSE IF s[Len(s)] = " " THEN <<>>
    ELSE LastField(SubSeq(s, 1, Len(s) - 1)) \o <<s[Len(s)]>>

\* c in s
Contains(s, c) == \E i \in 1..Len(s) : s[i] = c

(***************************************************************************)
(* Exceptions and results.  A result is a record with the value returned   *)
(* and the exception raised (NoExc when the call returned).                *)
(***************************************************************************)
NoExc == [type |-> "None", msg |-> <<>>]

Raise(type, msg) == [type |-> type, msg |-> msg]

\* Filemode members (ggshield.core.utils.Filemode)
Filemode_MODIFY == "MODIFY"
Filemode_NEW    == "NEW"
Filemode_RENAME == "RENAME"
Filemode_DELETE == "DELETE"

\* _parse_patch_header_line, lines 55-68: the order of the tests matters
StatusFilemode_FirstLetter(status) ==
    IF Len(status) = 0 THEN "NONE"
    ELSE IF status[1] = "M" THEN Filemode_MODIFY
    ELSE IF status[1] \in {"C", "A", "T"} THEN Filemode_NEW
    ELSE IF status[1] = "R" THEN Filemode_RENAME
    ELSE IF status[1] = "D" THEN Filemode_DELETE
    ELSE "NONE"

StatusFilemode(status) ==
    IF Contains(status, "M") THEN Filemode_MODIFY
    ELSE IF Contains(status, "C") THEN Filemode_NEW
    ELSE IF Contains(status, "A") THEN Filemode_NEW
    ELSE IF Contains(status, "T") THEN Filemode_NEW
    ELSE IF Contains(status, "R") THEN Filemode_RENAME
    ELSE IF Contains(status, "D") THEN Filemode_DELETE
    ELSE "NONE"

\* line 46: status letters of the prefix, the score stripped
StatusOf(prefix) == RStrip(LastField(prefix), Digits)

\* lines 55-68 once the line is split: the tuple returned, or the ValueError
HeaderLineResult(hline, name, status) ==
    IF StatusFilemode(status) = "NONE"
    THEN [name |-> <<>>, filemode |-> "NONE",
          exc |-> Raise("ValueError",
                        <<"Can't parse header line ">> \o hline
                            \o <<": unknown status ">> \o status)]
    ELSE [name |-> name, filemode |-> StatusFilemode(status), exc |-> NoExc]

\* the line parsed without lines 32-34: the first path is kept
HeaderLineParts_OldName(hline, parts) ==
    IF Len(parts) < 2
    THEN [name |-> <<>>, filemode |-> "NONE",
          exc |-> Raise("ValueError", <<"not enough values to unpack">>)]
    ELSE HeaderLineResult(hline, parts[2], StatusOf(parts[1]))

\* lines 30-46: prefix, name, *rest = parts; name = rest[0] if rest
HeaderLineParts(hline, parts) ==
    IF Len(parts) < 2
    THEN [name |-> <<>>, filemode |-> "NONE",
          exc |-> Raise("ValueError", <<"not enough values to unpack">>)]
    ELSE HeaderLineResult(hline,
                          IF Len(parts) > 2 THEN parts[3] ELSE parts[2],
                          StatusOf(parts[1]))

\* _parse_patch_header_line(line): [name, filemode, exc]
_parse_patch_header_line(hline) ==
    HeaderLineParts(hline, StrSplit(RStrip(hline, {NUL}), <<NUL>>))

\* _RX_HEADER_LINE_SEPARATOR.split(s): split at each "[\n\0]:", leftmost first
RECURSIVE HeaderLineSplit(_, _)
HeaderLineSplit(s, from) ==
    IF from + 1 > Len(s) THEN <<s>>
    ELSE IF s[from] \in {LF, NUL} /\ s[from + 1] = ":"
    THEN <<SubSeq(s, 1, from - 1)>> \o HeaderLineSplit(Drop(s, from + 2), 1)
    ELSE HeaderLineSplit(s, from + 1)

\* the header split as it is, without the blank line
HeaderWithBlank_Never(header) == header

\* lines 76-80: the blank line added in front of the header
HeaderWithBlank(header) ==
    IF header[1] = ":" THEN <<LF>> \o header ELSE header

\* _parse_patch_header(header): a generator.  Its body runs at the first
\* next(): header[0] raises IndexError on an empty header; then one raw line
\* is parsed per next().  rawlines are the lines it would parse, in order.
_parse_patch_header(header) ==
    IF Len(header) = 0
    THEN [rawlines |-> <<>>,
          exc |-> Raise("IndexError", <<"string index out of range">>)]
    ELSE [rawlines |-> Tail(HeaderLineSplit(HeaderWithBlank(header), 1)),
          exc |-> NoExc]

\* re.split(r"^diff ", s, flags=re.MULTILINE)
DiffMarker == <<"d", "i", "f", "f", " ">>

RECURSIVE DiffSplit(_, _)
DiffSplit(s, from) ==
    IF from + Len(DiffMarker) - 1 > Len(s) THEN <<s>>
    ELSE IF MatchAt(s, DiffMarker, from) /\ (from = 1 \/ s[from - 1] = LF)
    THEN <<SubSeq(s, 1, from - 1)>>
             \o DiffSplit(Drop(s, from + Len(DiffMarker)), 1)
    ELSE DiffSplit(s, from + 1)

\* ggshield.core.filter.is_filepath_excluded: a pure predicate on the path;
\* an exclusion pattern is modelled by the set of paths it matches
is_filepath_excluded(filename, exclusion_regexes) ==
    filename \in exclusion_regexes

\* StringScannable(url, content, filemode) for str content (lines 173-180)
StringScannable(url, content, filemode) ==
    [url |-> url, content |-> content, filemode |-> filemode]

\* lines 247-255 with end_of_headers = diff.find("\n@@") + 1 (0: not found)
HunkMarker == <<LF, "@", "@">>

\* a diff without hunk marker taken whole
DiffContent_Whole(filename, filemode, diff, end_of_headers) ==
    IF end_of_headers = 0 THEN <<StringScannable(filename, diff, filemode)>>
    ELSE <<StringScannable(filename, Drop(diff, end_of_headers + 1), filemode)>>

DiffContent(filename, filemode, diff, end_of_headers) ==
    IF end_of_headers = 0 THEN <<>>
    ELSE <<StringScannable(filename, Drop(diff, end_of_headers + 1), filemode)>>

\* lines 242-255: the Scannables one paired (filename, filemode, diff) yields
ScanDiff(filename, filemode, diff, exclusion_regexes) ==
    IF is_filepath_excluded(filename, exclusion_regexes) THEN <<>>
    ELSE DiffContent(filename, filemode, diff, Find(diff, HunkMarker, 1))

\* line 241: zip(names_and_modes, diffs) from position i on, `yielded` the
\* Scannables yielded so far.  zip asks the header generator first, so
\* header line i is parsed (and may raise) before diffs is found exhausted.
RECURSIVE ZipFrom(_, _, _, _, _)
\* zip(diffs, names_and_modes): the diffs are asked first, so the header
\* line after the last diff is never parsed
ZipPair_DiffsFirst(rawlines, diffs, i, exclusion_regexes, yielded, r) ==
    IF i > Len(diffs) THEN [files |-> yielded, exc |-> NoExc]
    ELSE IF r.exc # NoExc THEN [files |-> yielded, exc |-> r.exc]
    ELSE ZipFrom(rawlines, diffs, i + 1, exclusion_regexes,
                 yielded \o ScanDiff(r.name, r.filemode, diffs[i],
                                     exclusion_regexes))

\* the excluded header entries dropped before the pairing: the next
\* header line is paired with the diff segment of the excluded one
ZipPair_ShiftExcluded(rawlines, diffs, i, exclusion_regexes, yielded, r) ==
    IF r.exc # NoExc THEN [files |-> yielded, exc |-> r.exc]
    ELSE IF is_filepath_excluded(r.name, exclusion_regexes)
    THEN ZipFrom(SubSeq(rawlines, 1, i - 1)
                     \o SubSeq(rawlines, i + 1, Len(rawlines)),
                 diffs, i, exclusion_regexes, yielded)
    ELSE IF i > Len(diffs) THEN [files |-> yielded, exc |-> NoExc]
    ELSE ZipFrom(rawlines, diffs, i + 1, exclusion_regexes,
                 yielded \o ScanDiff(r.name, r.filemode, diffs[i],
                                     exclusion_regexes))

ZipPair(rawlines, diffs, i, exclusion_regexes, yielded, r) ==
    IF r.exc # NoExc THEN [files |-> yielded, exc |-> r.exc]
    ELSE IF i > Len(diffs) THEN [files |-> yielded, exc |-> NoExc]
    ELSE ZipFrom(rawlines, diffs, i + 1, exclusion_regexes,
                 yielded \o ScanDiff(r.name, r.filemode, diffs[i],
                                     exclusion_regexes))

ZipFrom(rawlines, diffs, i, exclusion_regexes, yielded) ==
    IF i > Len(rawlines) THEN [files |-> yielded, exc |-> NoExc]
    ELSE ZipPair(rawlines, diffs, i, exclusion_regexes, yielded,
                 _parse_patch_header_line(<<":">> \o rawlines[i]))

\* lines 232-255: one commit section
CommitMarker == <<NUL, "c", "o", "m", "m", "i", "t", " ">>
DiffStart    == <<NUL, "d", "i", "f", "f", " ">>

ParseSection(names_and_modes, diffs, exclusion_regexes, yielded) ==
    IF names_and_modes.exc # NoExc
    THEN [files |-> yielded, exc |-> names_and_modes.exc]
    ELSE ZipFrom(names_and_modes.rawlines, diffs, 1, exclusion_regexes,
                 yielded)

ParseTokens(tokens, exclusion_regexes, yielded) ==
    IF Len(tokens) = 1 THEN [files |-> yielded, exc |-> NoExc]
    ELSE ParseSection(_parse_patch_header(tokens[1]), DiffSplit(tokens[2], 1),
                      exclusion_regexes, yielded)

ParseCommit(commit, exclusion_regexes, yielded) ==
    ParseTokens(StrSplit1(commit, DiffStart), exclusion_regexes, yielded)

\* line 231: the commit sections in order; the generator stops at the first
\* exception, after the files it has already yielded
RECURSIVE ParseCommits(_, _, _, _)
ParseRest(commits, k, exclusion_regexes, c) ==
    IF c.exc # NoExc THEN c
    ELSE ParseCommits(commits, k + 1, exclusion_regexes, c.files)

ParseCommits(commits, k, exclusion_regexes, yielded) ==
    IF k > Len(commits) THEN [files |-> yielded, exc |-> NoExc]
    ELSE ParseRest(commits, k, exclusion_regexes,
                   ParseCommit(commits[k], exclusion_regexes, yielded))

\* _parse_patch(patch, exclusion_regexes): the files yielded, then the
\* exception raised (NoExc when the generator is exhausted)
_parse_patch(patch, exclusion_regexes) ==
    ParseCommits(StrSplit(patch, CommitMarker), 1, exclusion_regexes, <<>>)

(***************************************************************************)
(* What the git collaborator prints (ggshield.core.git_shell.git, called   *)
(* at lines 306 and 308 with --raw -z --patch -m).  A printed patch is     *)
(* rendered from a shape: per commit section, the raw header lines and the *)
(* diff segments.  Header line i of a section names path Letter[i] with    *)
(* status StatusAt[i]; one line of a patch may be defective.               *)
(***************************************************************************)
MaxLines == 3   \* raw header lines in a patch, all sections together
MaxSegs  == 2   \* diff segments in a patch, all sections together

Letter   == <<"a", "b", "c", "d", "e", "f">>
StatusAt == <<<<"M">>, <<"D">>, <<"A">>, <<"R", "5">>, <<"M">>, <<"D">>>>

NameOf(i) == <<Letter[i]>>

LineKinds == {"ok", "unknown", "nopath"}

\* one raw header line as git prints it (-z: NUL after each field)
RenderLine(i, kind) ==
    <<":", "7", " ">>
        \o (IF kind = "unknown" THEN <<"X">> ELSE StatusAt[i])
        \o <<NUL>>
        \o (IF kind = "nopath" THEN <<>> ELSE NameOf(i) \o <<NUL>>)

RECURSIVE RenderLines(_, _)
RenderLines(kinds, i) ==
    IF i > Len(kinds) THEN <<>>
    ELSE RenderLine(i, kinds[i]) \o RenderLines(kinds, i + 1)

\* the hunks of segment i: two hunk header lines
HunkText(i) == <<"@", "@", Letter[i], LF, "@", "@", LF>>

\* one diff segment: the "diff " line, then the hunks when it has any
RenderSeg(i, hunk) ==
    DiffMarker \o <<"g", LF>> \o (IF hunk THEN HunkText(i) ELSE <<"r", LF>>)

RECURSIVE RenderSegs(_, _)
RenderSegs(hunks, i) ==
    IF i > Len(hunks) THEN <<>>
    ELSE RenderSeg(i, hunks[i]) \o RenderSegs(hunks, i + 1)

\* a commit section [meta, kinds, hunks]: the commit information (git
\* show only: the sha, then the Author and Date lines, written with the
\* words "Author:" and "Date:" as one token each), the raw header lines,
\* and the diff segments when it has any
AuthorDate ==
    <<"Author:", " ", "n", " ", "<", "e", ">", LF, "Date:", " ", "d", LF>>

RenderSection(sec) ==
    (IF sec.meta THEN <<"c", LF>> \o AuthorDate ELSE <<>>)
        \o RenderLines(sec.kinds, 1)
        \o (IF Len(sec.hunks) > 0 THEN <<NUL>> \o RenderSegs(sec.hunks, 1)
            ELSE <<>>)

\* git show prints "commit <sha>" first; with -m each further parent's
\* section follows a NUL
RECURSIVE RenderPatch(_, _)
RenderPatch(secs, k) ==
    IF k > Len(secs) THEN <<>>
    ELSE (IF k > 1 THEN CommitMarker
          ELSE IF secs[k].meta THEN Tail(CommitMarker) ELSE <<>>)
             \o RenderSection(secs[k]) \o RenderPatch(secs, k + 1)

SeqsUpTo(S, n) == UNION {[1..k -> S] : k \in 0..n}

Defects(kinds) == Cardinality({i \in 1..Len(kinds) : kinds[i] # "ok"})

SectionShapes(meta, nlines, nsegs) ==
    {[meta |-> meta, kinds |-> ks, hunks |-> hs] :
        ks \in {k \in SeqsUpTo(LineKinds, nlines) : Defects(k) <= 1},
        hs \in SeqsUpTo(BOOLEAN, nsegs)}

\* git show <sha> -m: one section, or one per parent of a two-parent merge
ShowShapes ==
    {<<s>> : s \in SectionShapes(TRUE, MaxLines, MaxSegs)}
        \cup {<<s, t>> : s, t \in SectionShapes(TRUE, MaxLines, MaxSegs)}

\* git diff --cached: no commit information, one section
DiffShapes == {<<s>> : s \in SectionShapes(FALSE, MaxLines, MaxSegs)}

ShapeOk(shape) ==
    LET n == Len(shape)
        lines == shape[1].kinds \o (IF n > 1 THEN shape[2].kinds ELSE <<>>)
        segs  == shape[1].hunks \o (IF n > 1 THEN shape[2].hunks ELSE <<>>)
    IN  Len(lines) <= MaxLines /\ Len(segs) <= MaxSegs /\ Defects(lines) <= 1

GitShapes(cmd) ==
    {sh \in (IF cmd = "show" THEN ShowShapes ELSE DiffShapes) : ShapeOk(sh)}

GitError == Raise("GitError", <<"git failed">>)

\* what one call of git can do: print a patch (shape is the shape it was
\* rendered from), or raise
ShowOutputs ==
    {[text |-> RenderPatch(sh, 1), exc |-> NoExc, shape |-> sh] :
        sh \in GitShapes("show")}

DiffOutputs ==
    {[text |-> RenderPatch(sh, 1), exc |-> NoExc, shape |-> sh] :
        sh \in GitShapes("diff")}

GitFailure == [text |-> <<>>, exc |-> GitError, shape |-> <<>>]

GitOutcomes(cmd) ==
    (IF cmd = "show" THEN ShowOutputs ELSE DiffOutputs) \cup {GitFailure}

(***************************************************************************)
(* State.  Three objects are modelled, each with its own specification:    *)
(* a Files or Commit (Spec), one raw header line handed to the parser      *)
(* (SpecLine), and one File (SpecFile).                                    *)
(***************************************************************************)
VARIABLES
    cls,                \* "Files" or "Commit"
    sha,                \* Commit.sha: None or Some(text)
    exclusion_regexes,  \* Commit.exclusion_regexes
    _patch,             \* Commit._patch: None or Some(text)
    _files,             \* Files._files
    ret,                \* outcome of the last operation on the Files
    filesOk,            \* a read of the files property has returned
    parseFailed,        \* a read of the files property has raised on the patch
    printed,            \* the shape of the patch git printed, <<>> before
    _info,              \* Commit._info: None or Some(CommitInformation)
    lineShape,          \* the shape the raw header line was rendered from
    hline,              \* the raw header line
    lineResult,         \* None, or Some(what _parse_patch_header_line did)
    disk,               \* the bytes of the file at File.path
    _content,           \* File._content: None or Some(text)
    opens,              \* how many times the file was opened and decoded
    first,              \* None, or Some(text the first content access returned)
    fret,               \* outcome of the last access to the File
    fs,                 \* the configuration files: path -> document
    config,             \* the Config that is assigned to and saved
    last,               \* the last assignment through config
    cret,               \* outcome of the last operation on the configuration
    kdata,              \* the nested data replace_in_keys works on
    korig,              \* that data as it was at first
    kops,               \* the replacements applied to it, oldest first
    hshape,             \* the shape the raw patch header was rendered from
    header,             \* the raw patch header
    hgen                \* the generator _parse_patch_header(header) returned

commitVars == <<cls, sha, exclusion_regexes, _patch, _files, ret, filesOk,
                parseFailed, printed, _info>>

lineVars == <<lineShape, hline, lineResult>>

fileVars == <<disk, _content, opens, first, fret>>

configVars == <<fs, config, last, cret, kdata, korig, kops>>

headerVars == <<hshape, header, hgen>>

vars == <<commitVars, lineVars, fileVars, configVars, headerVars>>

(***************************************************************************)
(* Files and Commit (lines 190-213, 258-331).  Optional values are         *)
(* sequences: None is <<>>, a value x is <<x>>.                            *)
(***************************************************************************)
None == <<>>
Some(x) == <<x>>

\* str(sha) in an f-string
StrOf(optText) == IF optText = None THEN <<"None">> ELSE optText[1]

\* line 328
PatchParseError(self_sha, exc) ==
    Raise("PatchParseError",
          <<"Could not parse patch (sha: ">> \o StrOf(self_sha) \o <<"): ">>
              \o exc.msg)

\* lines 305-308: the git command patch() runs
GitCommand(self_sha) ==
    IF self_sha # None /\ Len(self_sha[1]) > 0 THEN "show" ELSE "diff"

\* Commit.patch testing `if not self._patch`: an empty patch is fetched again
Commit_patch_Falsy(self_patch, out) ==
    IF self_patch # None /\ Len(self_patch[1]) > 0
    THEN [cache |-> self_patch, text |-> self_patch[1], exc |-> NoExc, git |-> 0]
    ELSE IF out.exc # NoExc
    THEN [cache |-> None, text |-> <<>>, exc |-> out.exc, git |-> 1]
    ELSE [cache |-> Some(out.text), text |-> out.text, exc |-> NoExc, git |-> 1]

\* Commit.patch remembering a failed git invocation as an empty patch
Commit_patch_MemoFailure(self_patch, out) ==
    IF self_patch # None
    THEN [cache |-> self_patch, text |-> self_patch[1], exc |-> NoExc, git |-> 0]
    ELSE IF out.exc # NoExc
    THEN [cache |-> Some(<<>>), text |-> <<>>, exc |-> out.exc, git |-> 1]
    ELSE [cache |-> Some(out.text), text |-> out.text, exc |-> NoExc, git |-> 1]

\* Commit.patch (lines 295-310) with `out` what git does if it is invoked:
\* the new _patch, the text returned or the exception, git invocations made
Commit_patch(self_patch, out) ==
    IF self_patch # None
    THEN [cache |-> self_patch, text |-> self_patch[1], exc |-> NoExc, git |-> 0]
    ELSE IF out.exc # NoExc
    THEN [cache |-> None, text |-> <<>>, exc |-> out.exc, git |-> 1]
    ELSE [cache |-> Some(out.text), text |-> out.text, exc |-> NoExc, git |-> 1]

\* an except clause that names ValueError only
Caught_ValueError(exc) == exc.type = "ValueError"

\* lines 327-328: which exceptions of the pipeline the except clause wraps
Caught(exc) == TRUE

\* lines 325-328 around the parser's outcome r
GetFilesResult(self_sha, r) ==
    [files |-> r.files, parsed |-> 1, cause |-> r.exc,
     exc |-> IF r.exc # NoExc /\ Caught(r.exc)
             THEN PatchParseError(self_sha, r.exc) ELSE r.exc]

\* Commit.get_files (lines 319-328) run to exhaustion: self.patch is
\* evaluated inside the try block, then the patch is parsed.  files are the
\* Scannables yielded, before the exception if one is raised.
Commit_get_files(self_sha, self_excl, p) ==
    IF p.exc # NoExc
    THEN [files |-> <<>>, parsed |-> 0, cause |-> p.exc,
          exc |-> IF Caught(p.exc) THEN PatchParseError(self_sha, p.exc)
                  ELSE p.exc]
    ELSE GetFilesResult(self_sha, _parse_patch(p.text, self_excl))

\* self._files extended while the generator runs: the Scannables yielded
\* before an exception stay
Commit_files_store_Partial(self_files, g) == g.files

\* line 315: self._files = list(self.get_files()); list() raises before the
\* assignment when the generator raises
Commit_files_store(self_files, g) ==
    IF g.exc # NoExc THEN self_files ELSE g.files

\* line 314: the test that decides whether get_files runs
Commit_files_cached(self_files) == self_files # <<>>

\* lines 315-317 with p what self.patch did and g what get_files did
CommitFilesResult(self_files, p, g) ==
    [patch |-> p.cache, files |-> Commit_files_store(self_files, g),
     val |-> IF g.exc # NoExc THEN <<>> ELSE Commit_files_store(self_files, g),
     exc |-> g.exc, cause |-> g.cause, git |-> p.git, parsed |-> g.parsed,
     yielded |-> Len(g.files)]

CommitFilesRun(self_sha, self_excl, self_files, p) ==
    CommitFilesResult(self_files, p, Commit_get_files(self_sha, self_excl, p))

\* the files property, Files.files (lines 198-202) or Commit.files (lines
\* 312-317) by the receiver's class: the new _patch and _files, the list
\* returned or the exception, and what was run
FilesProperty(out) ==
    IF cls = "Files" \/ Commit_files_cached(_files)
    THEN [patch |-> _patch, files |-> _files, val |-> _files, exc |-> NoExc,
          cause |-> NoExc, git |-> 0, parsed |-> 0, yielded |-> 0]
    ELSE CommitFilesRun(sha, exclusion_regexes, _files,
                        Commit_patch(_patch, out))

\* Files.apply_filter (lines 212-213): the list of the new Files
FilterFuncs == {"is_modify", "not_a"}

filter_func(f, file) ==
    IF f = "is_modify" THEN file.filemode = Filemode_MODIFY
    ELSE file.url # <<"a">>

\* a filter that stops at the first file the predicate rejects
RECURSIVE Files_apply_filter_TakeWhile(_, _)
Files_apply_filter_TakeWhile(files, f) ==
    IF Len(files) = 0 \/ ~filter_func(f, Head(files)) THEN <<>>
    ELSE <<Head(files)>> \o Files_apply_filter_TakeWhile(Tail(files), f)

RECURSIVE Files_apply_filter(_, _)
Files_apply_filter(files, f) ==
    IF Len(files) = 0 THEN <<>>
    ELSE (IF filter_func(f, Head(files)) THEN <<Head(files)>> ELSE <<>>)
             \o Files_apply_filter(Tail(files), f)

NoOutcome == [text |-> <<>>, exc |-> NoExc, shape |-> <<>>]

\* git is invoked by an operation only while no patch is cached
Outcomes ==
    IF _patch # None THEN {NoOutcome} ELSE GitOutcomes(GitCommand(sha))

\* ret: the operation, its argument, the exception raised (and the exception
\* the pipeline raised before it was wrapped), the value returned, git
\* invocations made, parser runs made, Scannables the parser yielded, and
\* whether a read of the files property had returned (for info: _info was
\* computed) before the operation, the CommitInformation info returned,
\* and the git command the operation ran ("none" when it ran none)
NoRet == [op |-> "none", arg |-> "", exc |-> NoExc, cause |-> NoExc,
          files |-> <<>>, text |-> <<>>, git |-> 0, parsed |-> 0,
          yielded |-> 0, again |-> FALSE, cmd |-> "none", info |-> None]

\* in-memory Scannables a plain Files is built from
FILE == "FILE"

PlainFiles ==
    {StringScannable(<<"a">>, <<"x">>, FILE),
     StringScannable(<<"b">>, <<>>, FILE)}

Shas == {None, Some(<<>>), Some(<<"s">>)}

Exclusions == {{}, {NameOf(1)}, {NameOf(2)}}

InitCommit ==
    /\ \/ /\ cls = "Commit"
          /\ sha \in Shas
          /\ exclusion_regexes \in Exclusions
          /\ _files = <<>>
       \/ /\ cls = "Files"
          /\ sha = None
          /\ exclusion_regexes = {}
          /\ _files \in SeqsUpTo(PlainFiles, 2)
    /\ _patch = None
    /\ ret = NoRet
    /\ filesOk = FALSE
    /\ parseFailed = FALSE
    /\ printed = <<>>
    /\ _info = None

\* reading Commit.patch
PatchRead(p, out) ==
    /\ _patch' = p.cache
    /\ printed' = IF p.git = 1 /\ p.exc = NoExc THEN out.shape ELSE printed
    /\ ret' = [NoRet EXCEPT !.op = "patch", !.exc = p.exc, !.cause = p.exc,
                            !.text = p.text, !.git = p.git,
                            !.cmd = IF p.git = 1 THEN GitCommand(sha)
                                    ELSE "none"]
    /\ UNCHANGED <<cls, sha, exclusion_regexes, _files, filesOk, parseFailed,
                   _info>>
    /\ UNCHANGED <<lineVars, fileVars, configVars, headerVars>>

Patch ==
    /\ cls = "Commit"
    /\ \E out \in Outcomes : PatchRead(Commit_patch(_patch, out), out)

\* the effect of an operation that reads self.files once
ReadsFiles(r, out, op, arg, val) ==
    /\ _patch' = r.patch
    /\ printed' = IF r.git = 1 /\ r.patch # None THEN out.shape ELSE printed
    /\ _files' = r.files
    /\ ret' = [NoRet EXCEPT !.op = op, !.arg = arg, !.exc = r.exc,
                            !.cause = r.cause, !.files = val, !.git = r.git,
                            !.parsed = r.parsed, !.yielded = r.yielded,
                            !.again = filesOk,
                            !.cmd = IF r.git = 1 THEN GitCommand(sha)
                                    ELSE "none"]
    /\ filesOk' = (filesOk \/ r.exc = NoExc)
    /\ parseFailed' = (parseFailed \/ (r.exc # NoExc /\ r.parsed = 1))
    /\ UNCHANGED <<cls, sha, exclusion_regexes, _info>>
    /\ UNCHANGED <<lineVars, fileVars, configVars, headerVars>>

\* reading the files property
ReadFiles ==
    \E out \in Outcomes :
        \E r \in {FilesProperty(out)} : ReadsFiles(r, out, "files", "", r.val)

\* apply_filter(f): iterates self.files, builds a new Files
ApplyFilter ==
    \E out \in Outcomes :
        \E r \in {FilesProperty(out)}, f \in FilterFuncs :
            ReadsFiles(r, out, "apply_filter", f,
                       Files_apply_filter(r.val, f))

(***************************************************************************)
(* Commit.info (lines 274-284).  REGEX_HEADER_INFO of ggshield.core.utils  *)
(* is Author:\s(?P<author>.+?) <(?P<email>.+?)>\nDate:\s+(?P<date>.+)?\n   *)
(***************************************************************************)
CommitInformation(author, email, date) ==
    [author |-> author, email |-> email, date |-> date]

\* line 280
UnknownInformation ==
    CommitInformation(<<"u", "n", "k", "n", "o", "w", "n">>, <<>>, <<>>)

\* the groups of the match that starts at "Author:" in position i, with j
\* where " <" is found, k where ">\nDate: " is found and l the end of the
\* Date line; None when one of them is missing or a group spans lines
HeaderInfoGroups(text, i, j, k, l) ==
    IF i = 0 \/ j = 0 \/ k = 0 \/ l = 0 THEN None
    ELSE IF Contains(SubSeq(text, i + 2, k - 1), LF) THEN None
    ELSE Some(CommitInformation(SubSeq(text, i + 2, j - 1),
                                SubSeq(text, j + 2, k - 1),
                                SubSeq(text, k + 4, l - 1)))

HeaderInfoFrom(text, i, j) ==
    HeaderInfoGroups(text, i, j,
                     IF j = 0 THEN 0
                     ELSE Find(text, <<">", LF, "Date:", " ">>, j + 3),
                     IF j = 0 THEN 0
                     ELSE Find(text, <<LF>>,
                               Find(text, <<">", LF, "Date:", " ">>, j + 3)
                                   + 4))

\* REGEX_HEADER_INFO.search(text), for a text with the first Author line
\* complete: None, or Some(the groups)
REGEX_HEADER_INFO_search(text) ==
    HeaderInfoFrom(text, Find(text, <<"Author:", " ">>, 1),
                   IF Find(text, <<"Author:", " ">>, 1) = 0 THEN 0
                   ELSE Find(text, <<" ", "<">>,
                             Find(text, <<"Author:", " ">>, 1) + 3))

\* a sentinel with an empty author
InfoOfMatch_Empty(m) ==
    IF m = None THEN CommitInformation(<<>>, <<>>, <<>>) ELSE m[1]

\* lines 279-282
InfoOfMatch(m) == IF m = None THEN UnknownInformation ELSE m[1]

\* Commit.info with p what self.patch does if it is evaluated: the new
\* _info and _patch, the value returned or the exception, git invocations
Commit_info(self_info, self_patch, p) ==
    IF self_info # None
    THEN [info |-> self_info, patch |-> self_patch, val |-> self_info,
          exc |-> NoExc, git |-> 0]
    ELSE IF p.exc # NoExc
    THEN [info |-> None, patch |-> p.cache, val |-> None, exc |-> p.exc,
          git |-> p.git]
    ELSE [info |-> Some(InfoOfMatch(REGEX_HEADER_INFO_search(p.text))),
          patch |-> p.cache,
          val |-> Some(InfoOfMatch(REGEX_HEADER_INFO_search(p.text))),
          exc |-> NoExc, git |-> p.git]

InfoRead(r, out) ==
    /\ _info' = r.info
    /\ _patch' = r.patch
    /\ printed' = IF r.git = 1 /\ r.exc = NoExc THEN out.shape ELSE printed
    /\ ret' = [NoRet EXCEPT !.op = "info", !.exc = r.exc, !.cause = r.exc,
                            !.info = r.val, !.git = r.git,
                            !.again = (_info # None),
                            !.cmd = IF r.git = 1 THEN GitCommand(sha)
                                    ELSE "none"]
    /\ UNCHANGED <<cls, sha, exclusion_regexes, _files, filesOk, parseFailed>>
    /\ UNCHANGED <<lineVars, fileVars, configVars, headerVars>>

\* reading Commit.info
Info ==
    /\ cls = "Commit"
    /\ \E out \in Outcomes :
          \E r \in {Commit_info(_info, _patch, Commit_patch(_patch, out))} :
              InfoRead(r, out)

(***************************************************************************)
(* The raw header line parser on its own: a line is rendered from a shape  *)
(* (one or two leading colons, status letters, score, path tokens) and     *)
(* parsed once.                                                            *)
(***************************************************************************)
MaxStatus == 2   \* status letters of a raw header line

StatusLetters == {"M", "C", "A", "T", "R", "D", "X"}

LineShapes ==
    [merge : BOOLEAN,
     status : SeqsUpTo(StatusLetters, MaxStatus),
     score : {<<>>, <<"9", "0">>},
     paths : {<<>>, <<"p">>, <<"p", "q">>}]

\* ":<modes and shas> <status><score>" NUL path [NUL path]; the parser is
\* handed the line without the final NUL of the last line of a header
RenderHeaderLine(sh) ==
    (IF sh.merge THEN <<":", ":", "7", " ", "7", " ">> ELSE <<":", "7", " ">>)
        \o sh.status \o sh.score
        \o (IF Len(sh.paths) > 0 THEN <<NUL, sh.paths[1]>> ELSE <<NUL>>)
        \o (IF Len(sh.paths) > 1 THEN <<NUL, sh.paths[2]>> ELSE <<>>)

InitLine ==
    /\ lineShape \in LineShapes
    /\ hline = RenderHeaderLine(lineShape)
    /\ lineResult = None

IdleLine ==
    /\ lineShape = [merge |-> FALSE, status |-> <<>>, score |-> <<>>,
                    paths |-> <<>>]
    /\ hline = <<>>
    /\ lineResult = None

ParseLine ==
    /\ lineResult = None
    /\ lineResult' = Some(_parse_patch_header_line(hline))
    /\ UNCHANGED <<lineShape, hline>>
    /\ UNCHANGED <<commitVars, fileVars, configVars, headerVars>>

(***************************************************************************)
(* The generator _parse_patch_header(header) (lines 71-84), one next() at  *)
(* a time.  A header is the part of a commit section before its first      *)
(* diff segment: the commit information when git printed it, then the raw  *)
(* header lines.                                                           *)
(***************************************************************************)
HeaderShapes ==
    [meta : BOOLEAN, kinds : SeqsUpTo(LineKinds, MaxLines), hunks : {<<>>}]

NoGen ==
    [started |-> FALSE, blank |-> FALSE, rawlines |-> <<>>, yielded |-> <<>>,
     exc |-> NoExc, done |-> FALSE]

\* the first next(): lines 76-83 up to the first line of the loop; h is
\* what the body did before the loop
GenStart(h, blank) ==
    [started |-> TRUE, blank |-> blank, rawlines |-> h.rawlines,
     yielded |-> <<>>, exc |-> h.exc, done |-> h.exc # NoExc]

\* lines 83-84, one turn of the loop: r is what _parse_patch_header_line
\* did with the next raw line
GenYield(gen, r) ==
    IF r.exc # NoExc THEN [gen EXCEPT !.exc = r.exc, !.done = TRUE]
    ELSE [gen EXCEPT !.yielded = Append(@, <<r.name, r.filemode>>)]

GenNext(gen) ==
    IF Len(gen.yielded) = Len(gen.rawlines) THEN [gen EXCEPT !.done = TRUE]
    ELSE GenYield(gen, _parse_patch_header_line(
                           <<":">> \o gen.rawlines[Len(gen.yielded) + 1]))

\* next(names_and_modes)
HeaderNext ==
    /\ ~hgen.done
    /\ hgen' = IF hgen.started THEN GenNext(hgen)
               ELSE GenNext(GenStart(_parse_patch_header(header),
                                     Len(header) > 0
                                       /\ HeaderWithBlank(header) # header))
    /\ UNCHANGED <<hshape, header>>
    /\ UNCHANGED <<commitVars, lineVars, fileVars, configVars>>

InitHeader ==
    /\ hshape \in HeaderShapes
    /\ header = RenderSection(hshape)
    /\ hgen = NoGen

IdleHeader ==
    /\ hshape = [meta |-> FALSE, kinds |-> <<>>, hunks |-> <<>>]
    /\ header = <<>>
    /\ hgen = NoGen

(***************************************************************************)
(* File, the file-backed Scannable (lines 128-167).  The file on disk is a *)
(* sequence of bytes, written as two hexadecimal digits each.              *)
(***************************************************************************)
MaxBytes == 2   \* bytes of the file after the optional byte-order mark
MaxSize  == 2   \* the size is_longer_than is asked about

BOM_UTF8 == <<"EF", "BB", "BF">>

FileBytes == {"61", "C3", "A9", "FF"}

\* charset_normalizer.from_bytes(raw).best(): no encoding is detected for a
\* buffer that holds the byte FF, utf_8 for any other
Detected(raw) == IF \E i \in 1..Len(raw) : raw[i] = "FF" THEN None
                 ELSE Some("utf_8")

StartsWith(s, pat) == MatchAt(s, pat, 1)

\* bytes.decode("utf_8", errors="replace") on the bytes 61, C3, A9: C3 A9 is
\* one character, a lone C3 or A9 becomes U+FFFD
RECURSIVE Utf8Decode(_)
Utf8Decode(raw) ==
    IF Len(raw) = 0 THEN <<>>
    ELSE IF raw[1] = "61" THEN <<"a">> \o Utf8Decode(Tail(raw))
    ELSE IF raw[1] = "C3" /\ Len(raw) > 1 /\ raw[2] = "A9"
    THEN <<"e'">> \o Utf8Decode(Tail(Tail(raw)))
    ELSE <<"U+FFFD">> \o Utf8Decode(Tail(raw))

Returned(text) == [text |-> text, exc |-> NoExc]

\* _decode_bytes without the test of line 156: result.encoding on None
File_decode_bytes_NoTest(raw_document) ==
    IF Detected(raw_document) = None
    THEN [text |-> <<>>,
          exc |-> Raise("AttributeError",
                        <<"'NoneType' object has no attribute 'encoding'">>)]
    ELSE IF StartsWith(raw_document, BOM_UTF8)
    THEN Returned(Utf8Decode(Drop(raw_document, Len(BOM_UTF8) + 1)))
    ELSE Returned(Utf8Decode(raw_document))

\* File._decode_bytes (lines 152-167): the text returned, or the exception
File_decode_bytes(raw_document) ==
    IF Detected(raw_document) = None THEN Returned(<<>>)
    ELSE IF Detected(raw_document) = Some("utf_8")
            /\ StartsWith(raw_document, BOM_UTF8)
    THEN Returned(Utf8Decode(Drop(raw_document, Len(BOM_UTF8) + 1)))
    ELSE Returned(Utf8Decode(raw_document))

\* fret: the access, the size asked about and the answer, the text returned
\* or the exception raised, and the bytes the access handed to the decoder
NoFret == [op |-> "none", size |-> 0, longer |-> FALSE, text |-> <<>>,
           exc |-> NoExc, raw |-> None]

DiskFiles ==
    {bom \o b : bom \in {<<>>, BOM_UTF8}, b \in SeqsUpTo(FileBytes, MaxBytes)}

InitFile ==
    /\ disk \in DiskFiles
    /\ _content = None
    /\ opens = 0
    /\ first = None
    /\ fret = NoFret

IdleFile ==
    /\ disk = <<>>
    /\ _content = None
    /\ opens = 0
    /\ first = None
    /\ fret = NoFret

\* _prepare testing `if self._content`: an empty text is read again
File_is_prepared_Falsy(self_content) ==
    self_content # None /\ Len(self_content[1]) > 0

\* line 147: the test that decides whether _prepare reads the file
File_is_prepared(self_content) == self_content # None

\* line 136: doc_size
File_doc_size(self_content, getsize) ==
    IF self_content # None /\ Len(self_content[1]) > 0
    THEN Len(self_content[1]) ELSE getsize

\* File.is_longer_than(size) (lines 135-137)
IsLongerThan ==
    /\ \E size \in 0..MaxSize :
          fret' = [NoFret EXCEPT !.op = "is_longer_than", !.size = size,
                       !.longer = (File_doc_size(_content, Len(disk)) > size)]
    /\ UNCHANGED <<disk, _content, opens, first>>
    /\ UNCHANGED <<commitVars, lineVars, configVars, headerVars>>

\* File.content (lines 139-150) with d the text it returns or the exception
\* of the decoder, and read whether _prepare read the file
ContentRead(d, read) ==
    /\ _content' = IF read /\ d.exc = NoExc THEN Some(d.text) ELSE _content
    /\ opens' = IF read THEN opens + 1 ELSE opens
    /\ first' = IF first = None /\ d.exc = NoExc THEN Some(d.text) ELSE first
    /\ fret' = [NoFret EXCEPT !.op = "content", !.text = d.text,
                              !.exc = d.exc,
                              !.raw = IF read THEN Some(disk) ELSE None]
    /\ UNCHANGED disk
    /\ UNCHANGED <<commitVars, lineVars, configVars, headerVars>>

Content ==
    IF File_is_prepared(_content)
    THEN ContentRead(Returned(_content[1]), FALSE)
    ELSE ContentRead(File_decode_bytes(disk), TRUE)

\* StringScannable(url, content) for bytes content (lines 177-178)
BytesScannable(d, content) ==
    /\ fret' = [NoFret EXCEPT !.op = "StringScannable", !.text = d.text,
                              !.exc = d.exc, !.raw = Some(content)]
    /\ UNCHANGED <<disk, _content, opens, first>>
    /\ UNCHANGED <<commitVars, lineVars, configVars, headerVars>>

\* the bytes handed to the constructor are the bytes of the file as it is
\* on disk at that moment, which range over DiskFiles
NewStringScannable ==
    \E content \in {disk} :
        \E d \in {File_decode_bytes(content)} : BytesScannable(d, content)

\* another process appends a byte to the file, or truncates it
WriteFile ==
    /\ \/ \E b \in FileBytes :
             /\ disk \o <<b>> \in DiskFiles
             /\ disk' = disk \o <<b>>
       \/ /\ Len(disk) > 0
          /\ disk' = <<>>
    /\ UNCHANGED <<_content, opens, first, fret>>
    /\ UNCHANGED <<commitVars, lineVars, configVars, headerVars>>

IdleCommit ==
    /\ cls = "Files"
    /\ sha = None
    /\ exclusion_regexes = {}
    /\ _patch = None
    /\ _files = <<>>
    /\ ret = NoRet
    /\ filesOk = FALSE
    /\ parseFailed = FALSE
    /\ printed = <<>>
    /\ _info = None

(***************************************************************************)
(* ggshield/config.py.  A YAML document is the value yaml.safe_load        *)
(* returns for it: a scalar, a list, or a dict that keeps its keys in      *)
(* insertion order.  A key is a sequence of words and of the separator     *)
(* characters "-" and "_".                                                 *)
(***************************************************************************)
Scalar(x) == [scalar |-> x]
List(l) == [list |-> l]
Dict(items) == [dict |-> items]
Item(key, value) == [k |-> key, v |-> value]

IsDict(x) == "dict" \in DOMAIN x
IsList(x) == "list" \in DOMAIN x

EmptyDict == Dict(<<>>)

\* data.keys(), key in data, data[key]
Keys(d) == {d.dict[i].k : i \in DOMAIN d.dict}
Has(d, key) == key \in Keys(d)
Get(d, key) == d.dict[CHOOSE i \in DOMAIN d.dict : d.dict[i].k = key].v

\* the dict after data.pop(key)
Pop(d, key) == Dict(SelectSeq(d.dict, LAMBDA it : it.k # key))

\* the dict after data[key] = value: a present key keeps its place
Set(d, key, value) ==
    IF Has(d, key)
    THEN Dict([i \in DOMAIN d.dict |->
                 IF d.dict[i].k = key THEN Item(key, value) ELSE d.dict[i]])
    ELSE Dict(Append(d.dict, Item(key, value)))

\* Python's ==: two dicts are equal whatever the order of their keys
RECURSIVE Canon(_)
Canon(x) ==
    IF IsDict(x) THEN [dict |-> [key \in Keys(x) |-> Canon(Get(x, key))]]
    ELSE IF IsList(x) THEN [list |-> [i \in DOMAIN x.list |-> Canon(x.list[i])]]
    ELSE x

PyEq(x, y) == Canon(x) = Canon(y)

\* old_char in key, key.replace(old_char, new_char)
CharInKey(old_char, key) == \E i \in DOMAIN key : key[i] = old_char

str_replace(key, old_char, new_char) ==
    [i \in DOMAIN key |-> IF key[i] = old_char THEN new_char ELSE key[i]]

\* replace_in_keys, the loop over list(data.items()) from its i-th item on
\* (lines 39-42); the values were replaced before (line 40)
RECURSIVE MoveKeys(_, _, _, _, _)
MoveKeys(items, i, data, old_char, new_char) ==
    IF i > Len(items) THEN data
    ELSE IF CharInKey(old_char, items[i].k)
    THEN MoveKeys(items, i + 1,
                  Set(Pop(data, items[i].k),
                      str_replace(items[i].k, old_char, new_char),
                      Get(data, items[i].k)),
                  old_char, new_char)
    ELSE MoveKeys(items, i + 1, data, old_char, new_char)

\* replace_in_keys(data, old_char, new_char) (lines 24-45): data afterwards
RECURSIVE replace_in_keys(_, _, _)
replace_in_keys(data, old_char, new_char) ==
    IF IsDict(data)
    THEN MoveKeys(data.dict, 1,
                  Dict([i \in DOMAIN data.dict |->
                          Item(data.dict[i].k,
                               replace_in_keys(data.dict[i].v,
                                               old_char, new_char))]),
                  old_char, new_char)
    ELSE IF IsList(data)
    THEN List([i \in DOMAIN data.list |->
                 replace_in_keys(data.list[i], old_char, new_char)])
    ELSE data

\* a file that does not exist, a file that is not YAML; any other file is
\* the document it holds
NoFile == [absent |-> TRUE]
BadYaml == [invalid |-> TRUE]

PyNone == Scalar("None")

\* bool(x) of a document or of a value
Truthy(x) ==
    /\ x # PyNone
    /\ x # Scalar("False")
    /\ x # Scalar("")
    /\ x # EmptyDict
    /\ x # List(<<>>)

\* load_yaml(path) (lines 48-64) on the file at path: None when the file is
\* missing or does not parse, otherwise the document with "-" replaced
load_yaml(file) ==
    IF file = NoFile \/ file = BadYaml THEN None
    ELSE Some(replace_in_keys(IF Truthy(file) THEN file ELSE EmptyDict,
                              "-", "_"))

\* field names
k_config_path == <<"config", "_", "path">>
k_matches_ignore == <<"matches", "_", "ignore">>
k_verbose == <<"verbose">>
k_local_config_path == <<"local", "_", "config", "_", "path">>
k_default_host == <<"default", "_", "host">>
k_default_token_lifetime == <<"default", "_", "token", "_", "lifetime">>
k_hosts == <<"hosts">>
k_account == <<"account">>
k_accounts == <<"accounts">>
k_name == <<"name">>
k_account_id == <<"account", "_", "id">>
k_url == <<"url">>
k_token == <<"token">>
k_type == <<"type">>
k_token_name == <<"token", "_", "name">>
k_expire_at == <<"expire", "_", "at">>

\* A dataclass instance is the dict of its fields, in field order.
\* UserConfig() (lines 141-157): the path field, the list field
\* matches_ignore and the scalar field verbose
UserConfig ==
    Dict(<<Item(k_config_path, PyNone),
           Item(k_matches_ignore, List(<<>>)),
           Item(k_verbose, Scalar("False"))>>)

\* YamlFileConfig.update_config, the loop of lines 108-117 from the i-th
\* item on.  A list field is extended, any other field is assigned.
RECURSIVE UpdateFields(_, _, _)
UpdateFields(self, items, i) ==
    IF i > Len(items) THEN self
    ELSE IF ~Has(self, items[i].k)
    THEN UpdateFields(self, items, i + 1)
    ELSE IF IsList(Get(self, items[i].k))
    THEN UpdateFields(Set(self, items[i].k,
                          List(Get(self, items[i].k).list \o items[i].v.list)),
                      items, i + 1)
    ELSE UpdateFields(Set(self, items[i].k, items[i].v), items, i + 1)

\* update_config(self, data) (lines 102-118): self afterwards
update_config(self, data) ==
    UpdateFields(self, replace_in_keys(data, "-", "_").dict, 1)

\* ggshield.constants: the names the user configuration is looked up under
GLOBAL_CONFIG_FILENAMES == <<".gitguardian.yaml">>
LOCAL_CONFIG_PATHS == <<"./.gitguardian.yml", "./.gitguardian.yaml">>
DEFAULT_LOCAL_CONFIG_PATH == "./.gitguardian.yaml"
AUTH_CONFIG_FILENAME == "auth_config.yaml"

\* os.path.join(os.path.expanduser("~"), filename) (lines 67-68)
get_global_path(filename) ==
    IF filename = ".gitguardian.yaml" THEN "~/.gitguardian.yaml" ELSE "~/"
get_auth_config_filepath == "confdir/auth_config.yaml"

CustomPath == "./custom.yaml"

Paths ==
    {get_global_path(GLOBAL_CONFIG_FILENAMES[1]), LOCAL_CONFIG_PATHS[1],
     LOCAL_CONFIG_PATHS[2], CustomPath, get_auth_config_filepath}

\* the loops of lines 183-192: the first file that holds a non-empty
\* document updates the config and ends the loop
RECURSIVE UpdateFromFirst(_, _, _, _)
UpdateFromData(self, files, paths, i, data) ==
    IF data # None /\ Truthy(data[1]) THEN update_config(self, data[1])
    ELSE UpdateFromFirst(self, files, paths, i + 1)

UpdateFromFirst(self, files, paths, i) ==
    IF i > Len(paths) THEN self
    ELSE UpdateFromData(self, files, paths, i, load_yaml(files[paths[i]]))

GlobalPaths ==
    [i \in DOMAIN GLOBAL_CONFIG_FILENAMES |->
       get_global_path(GLOBAL_CONFIG_FILENAMES[i])]

\* UserConfig.load(config_path), lines 180-182: data is what load_yaml
\* returned
UserConfig_load_path(config_path, data) ==
    update_config(UserConfig,
                  Set(IF data # None THEN data[1] ELSE EmptyDict,
                      k_local_config_path, Scalar(config_path)))

\* UserConfig.load reading the local files before the global ones
UserConfig_load_LocalFirst(files, config_path) ==
    IF config_path # None
    THEN UserConfig_load_path(config_path[1], load_yaml(files[config_path[1]]))
    ELSE UpdateFromFirst(UpdateFromFirst(UserConfig, files, LOCAL_CONFIG_PATHS, 1),
                         files, GlobalPaths, 1)

\* UserConfig.load(config_path) (lines 167-193); config_path is None or
\* Some(path)
UserConfig_load(files, config_path) ==
    IF config_path # None
    THEN UserConfig_load_path(config_path[1], load_yaml(files[config_path[1]]))
    ELSE UpdateFromFirst(UpdateFromFirst(UserConfig, files, GlobalPaths, 1),
                         files, LOCAL_CONFIG_PATHS, 1)

\* YamlFileConfig.save_yaml (lines 120-130): the document written
save_yaml(self_to_dict) == replace_in_keys(self_to_dict, "_", "-")

\* UserConfig.save (lines 159-165): the files afterwards
UserConfig_save(self, files) ==
    [files EXCEPT ![IF Truthy(Get(self, k_config_path))
                    THEN Get(self, k_config_path).scalar
                    ELSE DEFAULT_LOCAL_CONFIG_PATH] = save_yaml(self)]

\* what a constructor or a load returned or raised
Made(obj) == [obj |-> obj, exc |-> NoExc]
Failed(type) == [obj |-> PyNone, exc |-> Raise(type, <<>>)]

\* cls(**data) of a dataclass whose fields and defaults are the items of
\* fields: TypeError on an unexpected keyword and on a missing required one
Dataclass(fields, required, data) ==
    IF \/ \E key \in Keys(data) : ~Has(fields, key)
       \/ \E key \in required : ~Has(data, key)
    THEN Failed("TypeError")
    ELSE Made(Dict([i \in DOMAIN fields.dict |->
                      Item(fields.dict[i].k,
                           IF Has(data, fields.dict[i].k)
                           THEN Get(data, fields.dict[i].k)
                           ELSE fields.dict[i].v)]))

\* AccountConfig (lines 218-225): no field has a default
AccountFields ==
    Dict(<<Item(k_account_id, PyNone), Item(k_url, PyNone),
           Item(k_token, PyNone), Item(k_type, PyNone),
           Item(k_token_name, PyNone), Item(k_expire_at, PyNone)>>)

\* datetime.fromisoformat(expire_at.replace("Z", "+00:00")) (line 230) and
\* expire_at.isoformat() (line 235).  An instant is written T followed by
\* its UTC offset.
DateTime(iso) == [datetime |-> iso]

fromisoformat_Z(expire_at) ==
    IF expire_at = Scalar("TZ") THEN DateTime("T+00:00")
    ELSE DateTime(expire_at.scalar)

isoformat(expire_at) == Scalar(expire_at.datetime)

\* AccountConfig.__post_init__ (lines 227-230)
AccountConfig_post_init(self) ==
    IF Get(self, k_expire_at) = PyNone THEN self
    ELSE Set(self, k_expire_at, fromisoformat_Z(Get(self, k_expire_at)))

\* AccountConfig(**data): __post_init__ runs on the instance made
AccountConfig_made(made) ==
    IF made.exc # NoExc THEN made ELSE Made(AccountConfig_post_init(made.obj))

AccountConfig(data) ==
    AccountConfig_made(Dataclass(AccountFields, Keys(AccountFields), data))

\* AccountConfig.to_dict (lines 232-236)
AccountConfig_to_dict(self) ==
    IF Get(self, k_expire_at) = PyNone THEN self
    ELSE Set(self, k_expire_at, isoformat(Get(self, k_expire_at)))

\* HostConfig (lines 240-243)
HostFields ==
    Dict(<<Item(k_account, PyNone), Item(k_name, PyNone),
           Item(k_default_token_lifetime, PyNone)>>)

\* HostConfig.load(data), lines 251-252: account is what
\* AccountConfig(**data.pop("accounts")[0]) returned or raised
HostConfig_with(data, account) ==
    IF account.exc # NoExc THEN account
    ELSE Dataclass(HostFields, {k_account},
                   Set(Pop(data, k_accounts), k_account, account.obj))

\* HostConfig.load(data) (lines 245-252)
HostConfig_load(data) ==
    IF ~Has(data, k_accounts) THEN Failed("KeyError")
    ELSE IF Len(Get(data, k_accounts).list) # 1 THEN Failed("AssertionError")
    ELSE HostConfig_with(data, AccountConfig(Get(data, k_accounts).list[1]))

\* HostConfig.to_dict (lines 254-257)
HostConfig_to_dict(self) ==
    Set(Pop(self, k_account), k_accounts,
        List(<<AccountConfig_to_dict(Get(self, k_account))>>))

\* AuthConfig() (lines 273-277)
AuthConfig ==
    Dict(<<Item(k_default_host, Scalar("https://dashboard.gitguardian.com")),
           Item(k_default_token_lifetime, PyNone),
           Item(k_hosts, EmptyDict)>>)

\* {key: HostConfig.load(value) for key, value in data["hosts"].items()}
\* (lines 285-287): loaded[i] is what HostConfig.load did for the i-th
\* host, and the first host that does not load raises
HostsLoaded(hosts, loaded) ==
    IF \E i \in DOMAIN loaded : loaded[i].exc # NoExc
    THEN loaded[CHOOSE i \in DOMAIN loaded :
                   /\ loaded[i].exc # NoExc
                   /\ \A j \in 1..(i - 1) : loaded[j].exc = NoExc]
    ELSE Made(Dict([i \in DOMAIN hosts.dict |->
                      Item(hosts.dict[i].k, loaded[i].obj)]))

LoadHosts(hosts) ==
    HostsLoaded(hosts, [i \in DOMAIN hosts.dict |->
                          HostConfig_load(hosts.dict[i].v)])

\* AuthConfig.load, line 288: cls(**data) once the hosts are loaded
AuthConfig_with(data, hosts) ==
    IF hosts.exc # NoExc THEN hosts
    ELSE Dataclass(AuthConfig, {}, Set(data, k_hosts, hosts.obj))

\* AuthConfig.load, lines 284-289: data is what load_yaml returned
AuthConfig_of(data) ==
    IF data = None THEN Made(AuthConfig)
    ELSE IF ~Truthy(data[1]) THEN Made(AuthConfig)
    ELSE IF ~Has(data[1], k_hosts) THEN Failed("KeyError")
    ELSE AuthConfig_with(data[1], LoadHosts(Get(data[1], k_hosts)))

\* AuthConfig.load (lines 279-289) on the file at the auth config path
AuthConfig_load(file) == AuthConfig_of(load_yaml(file))

\* AuthConfig.to_dict: custom_asdict (lines 71-90) calls the to_dict of
\* every HostConfig of the hosts mapping
AuthConfig_to_dict(self) ==
    Set(self, k_hosts,
        Dict([i \in DOMAIN Get(self, k_hosts).dict |->
                Item(Get(self, k_hosts).dict[i].k,
                     HostConfig_to_dict(Get(self, k_hosts).dict[i].v))]))

\* AuthConfig.save (lines 291-294): the files afterwards; the directory
\* and the file are created when missing
AuthConfig_save(self, files) ==
    [files EXCEPT ![get_auth_config_filepath] =
                      save_yaml(AuthConfig_to_dict(self))]

\* Config(config_path) (lines 319-322): auth is what AuthConfig.load()
\* returned or raised
Config_of(user_config, auth) ==
    IF auth.exc # NoExc
    THEN [exc |-> auth.exc, user_config |-> PyNone, auth_config |-> PyNone]
    ELSE [exc |-> NoExc, user_config |-> user_config, auth_config |-> auth.obj]

Config(files, config_path) ==
    Config_of(UserConfig_load(files, config_path),
              AuthConfig_load(files[get_auth_config_filepath]))

\* Config._attr_mapping (lines 315-317, 297-309)
_attr_mapping(key) ==
    IF Has(UserConfig, key) THEN "user_config" ELSE "auth_config"

\* Config.__getattr__ (lines 324-332) of a field name
Config_getattr(self, name) == Get(self[_attr_mapping(name)], name)

\* Config.__setattr__ (lines 334-336): the Config afterwards
Config_setattr(self, key, value) ==
    [self EXCEPT ![_attr_mapping(key)] = Set(@, key, value)]

\* Config.save (lines 338-340): the files afterwards
Config_save(self, files) ==
    AuthConfig_save(self.auth_config, UserConfig_save(self.user_config, files))

(***************************************************************************)
(* The documents the configuration files hold.                             *)
(***************************************************************************)
MaxMatches == 2
MaxKeys == 2

Matches == {"one", "two"}

\* a user configuration document: verbose and matches-ignore are optional,
\* the separator of matches-ignore is spelled either way
UserItems ==
    {<<>>} \cup {<<Item(k_verbose, Scalar(v))>> : v \in {"True", "False"}}

MatchItems(n) ==
    {<<>>} \cup {<<Item(<<"matches", sep, "ignore">>, List([i \in DOMAIN l |-> Scalar(l[i])]))>> :
                    sep \in {"-", "_"}, l \in SeqsUpTo(Matches, n)}

UserDocs(n) ==
    {NoFile, BadYaml, PyNone,
     Dict(<<Item(<<"verbosity">>, Scalar("True"))>>)}
      \cup {Dict(u \o l) : u \in UserItems, l \in MatchItems(n)}

\* an account and the auth configuration document of one host
AccountDoc(expire_at) ==
    Dict(<<Item(<<"account", "-", "id">>, Scalar("1")),
           Item(k_url, Scalar("url")),
           Item(k_token, Scalar("my_token")),
           Item(k_type, Scalar("PAT")),
           Item(<<"token", "-", "name">>, Scalar("my_token_name")),
           Item(<<"expire", "-", "at">>, expire_at)>>)

HostNames == {<<"default">>, <<"my", "-", "host">>, <<"my", "_", "host">>}

ExpireAts == {PyNone, Scalar("T+00:00"), Scalar("TZ")}

AuthDoc(host, accounts) ==
    Dict(<<Item(<<"default", "-", "host">>, Scalar("default")),
           Item(<<"default", "-", "token", "-", "lifetime">>, Scalar("1")),
           Item(k_hosts,
                Dict(<<Item(host,
                            Dict(<<Item(k_name, Scalar("default")),
                                   Item(<<"default", "-", "token", "-", "lifetime">>, Scalar("1")),
                                   Item(k_accounts, List(accounts))>>))>>))>>)

AuthDocs ==
    {AuthDoc(host, <<AccountDoc(e)>>) : host \in HostNames, e \in ExpireAts}
      \cup {AuthDoc(<<"default">>, <<>>),
            AuthDoc(<<"default">>, <<AccountDoc(PyNone), AccountDoc(PyNone)>>)}

(***************************************************************************)
(* The state: the files, one Config that is assigned to and saved, what    *)
(* the last operation on the configuration did, and one nested data that    *)
(* replace_in_keys is applied to.                                          *)
(***************************************************************************)
NoConfig ==
    [made |-> FALSE, path |-> None,
     obj |-> [exc |-> NoExc, user_config |-> PyNone, auth_config |-> PyNone]]

NoAssign == [key |-> <<>>, value |-> PyNone, before |-> PyNone, saved |-> FALSE]

NoCret == [op |-> "none", path |-> None, loaded |-> NoConfig.obj]

ConfigPaths == {None, Some(CustomPath)}

\* config = Config(config_path)
NewConfig ==
    \E config_path \in ConfigPaths : \E c \in {Config(fs, config_path)} :
        /\ ~config.made
        /\ config' = IF c.exc = NoExc
                     THEN [made |-> TRUE, path |-> config_path, obj |-> c]
                     ELSE config
        /\ cret' = [op |-> "Config", path |-> config_path, loaded |-> c]
        /\ UNCHANGED <<fs, last, kdata, korig, kops>>
        /\ UNCHANGED <<commitVars, lineVars, fileVars, headerVars>>

\* Config(config_path), constructed while config exists
OtherConfig ==
    \E config_path \in ConfigPaths : \E c \in {Config(fs, config_path)} :
        /\ config.made
        /\ cret' = [op |-> "Config", path |-> config_path, loaded |-> c]
        /\ UNCHANGED <<fs, config, last, kdata, korig, kops>>
        /\ UNCHANGED <<commitVars, lineVars, fileVars, headerVars>>

Assignments ==
    {<<k_verbose, Scalar("True")>>, <<k_verbose, Scalar("False")>>,
     <<k_matches_ignore, List(<<>>)>>,
     <<k_matches_ignore, List(<<Scalar("three")>>)>>,
     <<k_default_host, Scalar("custom")>>}

\* config.key = value; before is what a Config constructed just before the
\* assignment reports for key
SetAttr ==
    \E a \in Assignments : \E c \in {Config(fs, config.path)} :
        /\ config.made
        /\ config' = [config EXCEPT !.obj = Config_setattr(@, a[1], a[2])]
        /\ last' = [key |-> a[1], value |-> a[2],
                    before |-> IF c.exc = NoExc
                               THEN Config_getattr(c, a[1]) ELSE PyNone,
                    saved |-> FALSE]
        /\ cret' = [op |-> "setattr", path |-> config.path, loaded |-> config'.obj]
        /\ UNCHANGED <<fs, kdata, korig, kops>>
        /\ UNCHANGED <<commitVars, lineVars, fileVars, headerVars>>

\* config.save()
Save ==
    /\ config.made
    /\ fs' = Config_save(config.obj, fs)
    /\ last' = IF last = NoAssign THEN last ELSE [last EXCEPT !.saved = TRUE]
    /\ cret' = [op |-> "save", path |-> config.path, loaded |-> config.obj]
    /\ UNCHANGED <<config, kdata, korig, kops>>
    /\ UNCHANGED <<commitVars, lineVars, fileVars, headerVars>>

\* replace_in_keys(data, old_char, new_char) on the nested data
MaxOps == 2

ReplaceInKeys ==
    \E chars \in {<<"-", "_">>, <<"_", "-">>} :
        /\ Len(kops) < MaxOps
        /\ \A i \in DOMAIN kops : kops[i] \in {<<"-", "_">>, <<"_", "-">>}
        /\ kdata' = replace_in_keys(kdata, chars[1], chars[2])
        /\ kops' = Append(kops, chars)
        /\ UNCHANGED <<fs, config, last, cret, korig>>
        /\ UNCHANGED <<commitVars, lineVars, fileVars, headerVars>>

\* the nested data taken for the document of the auth config file:
\* AuthConfig.load(), then to_dict() and replace_in_keys(data, "_", "-")
LoadAndDump ==
    \E a \in {AuthConfig_load(kdata)} :
        /\ kops = <<>>
        /\ kdata' = IF a.exc = NoExc
                    THEN replace_in_keys(AuthConfig_to_dict(a.obj), "_", "-")
                    ELSE kdata
        /\ kops' = <<<<"load", IF a.exc = NoExc THEN "to_dict" ELSE a.exc.type>>>>
        /\ UNCHANGED <<fs, config, last, cret, korig>>
        /\ UNCHANGED <<commitVars, lineVars, fileVars, headerVars>>

\* nested data: a dict of at most MaxKeys keys whose values are scalars,
\* such dicts, or lists of one such dict
KeyNames == {<<"a">>, <<"a", "-", "b">>, <<"a", "_", "b">>}

DictsOver(values, n) ==
    UNION {{Dict([i \in DOMAIN ks |-> Item(ks[i], vs[i])]) :
               vs \in [DOMAIN ks -> values]} :
           ks \in {s \in SeqsUpTo(KeyNames, n) :
                      \A i, j \in DOMAIN s : s[i] = s[j] => i = j}}

FlatDicts(n) == DictsOver({Scalar("x")}, n)

NestedDatas(n) ==
    DictsOver({Scalar("x")} \cup FlatDicts(n)
                \cup {List(<<d>>) : d \in FlatDicts(n)}, n)

IdleKeys ==
    /\ kdata = EmptyDict
    /\ korig = EmptyDict
    /\ kops = <<>>

IdleConfig ==
    /\ fs = [p \in Paths |-> NoFile]
    /\ config = NoConfig
    /\ last = NoAssign
    /\ cret = NoCret

(***************************************************************************)
(* Specifications                                                          *)
(***************************************************************************)
\* a Files or a Commit and the operations on it
Init == InitCommit /\ IdleLine /\ IdleFile /\ IdleConfig /\ IdleKeys /\ IdleHeader

Next == Patch \/ ReadFiles \/ ApplyFilter

Spec == Init /\ [][Next]_vars

\* one raw header line and its parse
LineInit == IdleCommit /\ InitLine /\ IdleFile /\ IdleConfig /\ IdleKeys /\ IdleHeader

NextLine == ParseLine

SpecLine == LineInit /\ [][NextLine]_vars

\* one File and the accesses to it
FileInit == IdleCommit /\ IdleLine /\ InitFile /\ IdleConfig /\ IdleKeys /\ IdleHeader

NextFile == IsLongerThan \/ Content \/ WriteFile \/ NewStringScannable

SpecFile == FileInit /\ [][NextFile]_vars

\* one Commit, its patch and its info
InfoInit ==
    InitCommit /\ cls = "Commit" /\ IdleLine /\ IdleFile /\ IdleConfig /\ IdleKeys /\ IdleHeader

NextInfo == Patch \/ Info

SpecInfo == InfoInit /\ [][NextInfo]_vars

\* one Commit and the three properties that fetch its patch
GitInit ==
    InitCommit /\ cls = "Commit" /\ IdleLine /\ IdleFile /\ IdleConfig /\ IdleKeys /\ IdleHeader

NextGit == Patch \/ ReadFiles \/ Info

SpecGit == GitInit /\ [][NextGit]_vars

\* one raw patch header and the generator that parses it
HeaderInit == IdleCommit /\ IdleLine /\ IdleFile /\ IdleConfig /\ IdleKeys /\ InitHeader

NextHeader == HeaderNext

SpecHeader == HeaderInit /\ [][NextHeader]_vars

\* the user configuration files and one Config() that loads them
LoadFiles ==
    [Paths -> {NoFile}] \cup
    {[p \in Paths |->
        IF p = get_global_path(GLOBAL_CONFIG_FILENAMES[1]) THEN g
        ELSE IF p = LOCAL_CONFIG_PATHS[1] THEN l1
        ELSE IF p = LOCAL_CONFIG_PATHS[2] THEN l2
        ELSE IF p = CustomPath THEN c
        ELSE NoFile] :
      g \in UserDocs(MaxMatches),
      l1 \in {NoFile, PyNone, Dict(<<Item(k_verbose, Scalar("True"))>>)},
      l2 \in UserDocs(MaxMatches),
      c \in {NoFile, Dict(<<Item(k_verbose, Scalar("True"))>>)}}

LoadInit ==
    /\ IdleCommit /\ IdleLine /\ IdleFile /\ IdleKeys /\ IdleHeader
    /\ fs \in LoadFiles
    /\ config = NoConfig
    /\ last = NoAssign
    /\ cret = NoCret

NextLoad == NewConfig

SpecLoad == LoadInit /\ [][NextLoad]_vars

\* the configuration files, one Config, assignments through it and saves
ConfigFiles ==
    {[p \in Paths |->
        IF p = get_global_path(GLOBAL_CONFIG_FILENAMES[1]) THEN g
        ELSE IF p = LOCAL_CONFIG_PATHS[1] THEN l1
        ELSE IF p = LOCAL_CONFIG_PATHS[2] THEN l2
        ELSE IF p = CustomPath THEN c
        ELSE a] :
      g \in {NoFile,
              Dict(<<Item(<<"matches", "-", "ignore">>, List(<<Scalar("one")>>))>>)},
      l1 \in {NoFile, Dict(<<Item(k_verbose, Scalar("False"))>>)},
      l2 \in {NoFile,
               Dict(<<Item(k_verbose, Scalar("True")),
                      Item(<<"matches", "-", "ignore">>, List(<<Scalar("two")>>))>>),
               Dict(<<Item(<<"config", "-", "path">>, Scalar(CustomPath))>>)},
      c \in {NoFile, Dict(<<Item(k_verbose, Scalar("False"))>>)},
      a \in {NoFile, BadYaml,
              AuthDoc(<<"default">>, <<AccountDoc(PyNone)>>),
              AuthDoc(<<"default">>, <<>>)}}

ConfigInit ==
    /\ IdleCommit /\ IdleLine /\ IdleFile /\ IdleKeys /\ IdleHeader
    /\ fs \in ConfigFiles
    /\ config = NoConfig
    /\ last = NoAssign
    /\ cret = NoCret

NextConfig == NewConfig \/ OtherConfig \/ SetAttr \/ Save

SpecConfig == ConfigInit /\ [][NextConfig]_vars

\* one nested data and replace_in_keys applied to it
KeysInit ==
    /\ IdleCommit /\ IdleLine /\ IdleFile /\ IdleConfig /\ IdleHeader
    /\ kdata \in NestedDatas(MaxKeys) \cup AuthDocs
    /\ korig = kdata
    /\ kops = <<>>

NextKeys == ReplaceInKeys \/ LoadAndDump

SpecKeys == KeysInit /\ [][NextKeys]_vars

(***************************************************************************)
(* Properties of Commit and Files, checked under Spec.                     *)
(***************************************************************************)

\* C1: a Commit that calls files() twice, git succeeding, invokes git
\* exactly once.  Step by step: a files() call on a Commit with no cached
\* patch invokes git once, git's success leaves the patch cached whatever
\* its text, and a files() call on a Commit with a cached patch invokes git
\* zero times.
C1_FilesTwiceOneGit ==
    [][(cls = "Commit" /\ ret'.op = "files") =>
          /\ _patch # None => ret'.git = 0
          /\ _patch = None => ret'.git = 1
          /\ (ret'.git = 1 /\ ret'.cause.type # "GitError") => _patch' # None
      ]_vars

\* a files() call that follows one that had returned, on a Commit whose
\* patch is the empty text: it ran without git
C1_Witness ==
    /\ cls = "Commit"
    /\ ret.op = "files"
    /\ ret.again
    /\ _patch = Some(<<>>)
    /\ ret.git = 0

\* C2: the FileSet of a patch-backed Commit is parsed at most once: once a
\* files() access has returned, a later files() access does not run the
\* parser, also when the parse produced zero Scannables.
C2_ParsedAtMostOnce ==
    [][(cls = "Commit" /\ filesOk /\ ret'.op = "files") => ret'.parsed = 0]_vars

\* C3: a failing parse leaves nothing behind: after a files() access has
\* raised on the patch the Commit's list is empty, whatever the parser had
\* yielded before the failure, and the raising call returns no list.
C3_AllOrNothing ==
    /\ (cls = "Commit" /\ parseFailed) => _files = <<>>
    /\ (ret.op \in {"files", "apply_filter"} /\ ret.exc # NoExc) =>
           ret.files = <<>>

\* files() raised after the parser had yielded a Scannable
C3_Witness ==
    /\ ret.op = "files"
    /\ ret.exc.type = "PatchParseError"
    /\ ret.yielded >= 1
    /\ _files = <<>>

\* C4: whatever the parse pipeline raises, files() raises PatchParseError
\* and nothing else, and its message carries the Commit's sha and the text
\* of the underlying exception.
C4_OnlyPatchParseError ==
    (cls = "Commit" /\ ret.op \in {"files", "apply_filter"}
            /\ ret.exc # NoExc) =>
        /\ ret.exc.type = "PatchParseError"
        /\ ret.cause # NoExc
        /\ Find(ret.exc.msg, StrOf(sha), 1) # 0
        /\ Find(ret.exc.msg, ret.cause.msg, 1) # 0

\* files() of a Commit with sha "s" raised on a header line (ValueError
\* underneath)
C4_Witness ==
    /\ ret.op = "files"
    /\ ret.exc.type = "PatchParseError"
    /\ ret.cause.type = "ValueError"
    /\ sha = Some(<<"s">>)

\* a defective header line of section sec that the pairing reaches: the
\* section has d >= 1 diff segments and the line is among the first d + 1
ReachedDefect(sec) ==
    /\ Len(sec.hunks) >= 1
    /\ \E i \in 1..Len(sec.kinds) :
          i <= Len(sec.hunks) + 1 /\ sec.kinds[i] # "ok"

HasDefect(shape) ==
    \E k \in 1..Len(shape) : Defects(shape[k].kinds) > 0

\* C6 as stated: files() on a patch with a defective header line in any
\* commit section raises the patch parse error, however many diff segments
\* the patch has.
C6_AnyDefectFatal ==
    (cls = "Commit" /\ ret.op = "files" /\ HasDefect(printed)) =>
        ret.exc.type = "PatchParseError"

\* C6: a defective header line is fatal when the pairing reaches it: if a
\* section with d >= 1 diff segments has one among its first d + 1 header
\* lines, files() raises the patch parse error; when the only defective
\* line lies further down, or in a section without diff segments, it is
\* never parsed and files() returns.
C6_ReachedDefectFatal ==
    (cls = "Commit" /\ ret.op = "files" /\ HasDefect(printed)) =>
        IF \E k \in 1..Len(printed) : ReachedDefect(printed[k])
        THEN ret.exc.type = "PatchParseError"
        ELSE ret.exc = NoExc

\* files() raised on the defective header line that follows the last
\* paired one (line d + 1 of a section with d diff segments)
C6_Witness ==
    /\ ret.op = "files"
    /\ ret.exc.type = "PatchParseError"
    /\ \E k \in 1..Len(printed) :
          /\ Len(printed[k].hunks) >= 1
          /\ Len(printed[k].kinds) > Len(printed[k].hunks)
          /\ printed[k].kinds[Len(printed[k].hunks) + 1] # "ok"

\* the (section, position) pairs of a shape whose header line and diff
\* segment are paired, the path not excluded
PairedKept(shape, excl) ==
    UNION {{<<k, i>> : i \in {j \in 1..Len(shape[k].hunks) :
                                 /\ j <= Len(shape[k].kinds)
                                 /\ NameOf(j) \notin excl}} :
              k \in 1..Len(shape)}

\* C7: a paired file whose diff segment has no hunk marker yields no
\* Scannable: the list files() returns has one Scannable per paired,
\* unexcluded segment with hunks; and the content of every Scannable is the
\* part of its segment from the first hunk marker on, so it starts with @@.
C7_ContentFromHunk ==
    (cls = "Commit" /\ ret.op = "files" /\ ret.exc = NoExc) =>
        /\ Len(ret.files) =
               Cardinality({p \in PairedKept(printed, exclusion_regexes) :
                               printed[p[1]].hunks[p[2]]})
        /\ \A j \in 1..Len(ret.files) :
              /\ SubSeq(ret.files[j].content, 1, 2) = <<"@", "@">>
              /\ \E i \in 1..Len(Letter) :
                    /\ ret.files[j].url = NameOf(i)
                    /\ ret.files[j].content = HunkText(i)

\* files() returned a Scannable from a patch that also has a paired,
\* unexcluded segment without hunk marker
C7_Witness ==
    /\ cls = "Commit"
    /\ ret.op = "files"
    /\ ret.exc = NoExc
    /\ Len(ret.files) >= 1
    /\ \E p \in PairedKept(printed, exclusion_regexes) :
          ~printed[p[1]].hunks[p[2]]

\* C8 as stated: apply_filter never changes its receiver, a Commit whose
\* files were not yet accessed included, and returns the receiver's
\* Scannables that satisfy the predicate, in order.
C8_NeverMutates ==
    [][ret'.op = "apply_filter" =>
          /\ _patch' = _patch
          /\ _files' = _files
          /\ ret'.exc = NoExc
          /\ ret'.files = SelectSeq(_files, LAMBDA x : filter_func(ret'.arg, x))
      ]_vars

\* C8: apply_filter leaves a plain Files, or a Commit whose list is cached,
\* as it was and cannot fail; on a Commit whose list is not cached it reads
\* self.files, which may fetch and cache the patch, store the parsed list,
\* or raise the patch parse error.  When it returns, the new FileSet holds
\* exactly the receiver's Scannables that satisfy the predicate, in order.
C8_MutatesOnlyByFilesRead ==
    [][ret'.op = "apply_filter" =>
          /\ (cls = "Files" \/ _files # <<>>) =>
                 /\ _patch' = _patch
                 /\ _files' = _files
                 /\ ret'.exc = NoExc
          /\ ret'.exc = NoExc =>
                 ret'.files =
                     SelectSeq(_files', LAMBDA x : filter_func(ret'.arg, x))
          /\ ret'.exc # NoExc =>
                 ret'.exc.type = "PatchParseError" /\ _files' = _files
      ]_vars

\* apply_filter on a Commit returned some but not all of its Scannables,
\* the last one among them
C8_Witness ==
    /\ cls = "Commit"
    /\ ret.op = "apply_filter"
    /\ ret.exc = NoExc
    /\ Len(ret.files) >= 1
    /\ Len(ret.files) < Len(_files)
    /\ ret.files[Len(ret.files)] = _files[Len(_files)]

(***************************************************************************)
(* Properties of the raw header line parser, checked under SpecLine.       *)
(***************************************************************************)
Precedence == <<"M", "C", "A", "T", "R", "D">>

KindOfLetter ==
    [l \in {"M", "C", "A", "T", "R", "D"} |->
        CASE l = "M" -> "MODIFY"
          [] l \in {"C", "A", "T"} -> "NEW"
          [] l = "R" -> "RENAME"
          [] OTHER -> "DELETE"]

\* the kind the precedence M, C, A, T, R, D gives a status, "NONE" when the
\* status has none of the letters
ExpectedKind(status) ==
    LET found == {k \in 1..6 : \E i \in 1..Len(status) :
                                   status[i] = Precedence[k]}
    IN  IF found = {} THEN "NONE"
        ELSE KindOfLetter[Precedence[CHOOSE k \in found :
                                         \A j \in found : k <= j]]

\* C5: the change kind of a raw header line with a path is decided by the
\* first of M, C, A, T, R, D that occurs in its status letters (M with any
\* other letter is MODIFY; C, A and T are NEW), and a status with none of
\* them raises an error that names the line.
C5_Precedence ==
    (lineResult # None /\ Len(lineShape.paths) > 0) =>
        IF ExpectedKind(lineShape.status) = "NONE"
        THEN /\ lineResult[1].exc.type = "ValueError"
             /\ Find(lineResult[1].exc.msg, hline, 1) # 0
        ELSE /\ lineResult[1].exc = NoExc
             /\ lineResult[1].filemode = ExpectedKind(lineShape.status)

\* a line with status DM was parsed as MODIFY
C5_Witness ==
    /\ lineResult # None
    /\ lineShape.status = <<"D", "M">>
    /\ Len(lineShape.paths) > 0
    /\ lineResult[1].filemode = Filemode_MODIFY

(***************************************************************************)
(* Properties of File, checked under SpecFile.                             *)
(***************************************************************************)

\* C9: is_longer_than(size) compares size with the file's byte size while
\* the content has not been read, and with the length of the decoded text
\* once it has been read, a decoded text that is empty included.
C9_SizeOfDecodedOnceRead ==
    [][IsLongerThan =>
          fret'.longer = ((IF _content = None THEN Len(disk)
                           ELSE Len(_content[1])) > fret'.size)]_vars

\* C10: the file is read and decoded at most once, and every content access
\* returns the text of the first one, whatever happens to the file later.
C10_ReadOnce ==
    /\ opens <= 1
    /\ fret.op = "content" => (first # None /\ fret.text = first[1])
    /\ _content # None => _content = first

\* content returned the empty text of the first access although the file
\* now decodes to something else
C10_Witness ==
    /\ fret.op = "content"
    /\ opens = 1
    /\ fret.text = <<>>
    /\ File_decode_bytes(disk).text # <<>>

(***************************************************************************)
(* Properties of Commit.patch and Commit.info, checked under Spec.         *)
(***************************************************************************)

\* C11: patch() asks git for the staged diff (git diff --cached) exactly
\* when the Commit's sha is None, and for git show <sha> for every sha
\* that is not None, the empty string included.
C11_ShowUnlessNone ==
    (cls = "Commit" /\ ret.op = "patch" /\ ret.git = 1) =>
        ret.cmd = (IF sha = None THEN "diff" ELSE "show")

\* C12 as stated: info() never fails: every info() access returns a
\* CommitInformation, the triple ("unknown", "", "") when the patch has no
\* Author and Date lines (the staged diff), and the value computed first
\* on every later access.
C12_InfoNeverFails ==
    [][ret'.op = "info" =>
          /\ ret'.exc = NoExc
          /\ ret'.info # None
          /\ ret'.info = _info'
          /\ ~printed'[1].meta => ret'.info = Some(UnknownInformation)
          /\ _info # None => ret'.info = _info
      ]_vars

\* C12: info() fails only when it has to fetch the patch and git fails;
\* that failure reaches the caller unchanged and nothing is cached.  When
\* the patch is available info() returns a CommitInformation: the triple
\* ("unknown", "", "") when the patch has no Author and Date lines, the
\* author, email and date of the first such lines otherwise; and once
\* computed, the same value is returned by every later access, without
\* git.
C12_InfoFailsOnlyWithGit ==
    [][ret'.op = "info" =>
          IF ret'.exc # NoExc
          THEN /\ ret'.exc = GitError
               /\ ret'.git = 1
               /\ _patch = None /\ _patch' = None
               /\ _info = None /\ _info' = None
          ELSE /\ ret'.info # None
               /\ ret'.info = _info'
               /\ ret'.info =
                      Some(IF printed'[1].meta
                           THEN CommitInformation(<<"n">>, <<"e">>, <<"d">>)
                           ELSE UnknownInformation)
               /\ _info # None => (ret'.info = _info /\ ret'.git = 0)
      ]_vars

\* a later info() access returned the sentinel computed by the first one
C12_Witness ==
    /\ ret.op = "info"
    /\ ret.again
    /\ ret.exc = NoExc
    /\ ret.info = Some(UnknownInformation)

\* C13: decoding never raises: reading the content of a File, or building
\* a StringScannable from bytes, raises nothing whatever the bytes are,
\* and gives the empty text when no encoding is detected for them (the
\* buffers that hold the byte FF).
C13_DecodeNeverRaises ==
    fret.op \in {"content", "StringScannable"} =>
        /\ fret.exc = NoExc
        /\ (fret.raw # None
                /\ \E i \in 1..Len(fret.raw[1]) : fret.raw[1][i] = "FF") =>
               fret.text = <<>>
        /\ (fret.op = "content" /\ fret.raw # None) =>
               _content = Some(fret.text)

\* the content of a File whose bytes hold FF after a decodable byte was
\* read: it is empty
C13_Witness ==
    /\ fret.op = "content"
    /\ fret.raw = Some(<<"61", "FF">>)
    /\ fret.exc = NoExc
    /\ _content = Some(<<>>)


(***************************************************************************)
(* Properties of the configuration, checked under SpecConfig, SpecLoad and *)
(* SpecKeys.                                                               *)
(***************************************************************************)

\* C14: assigning a field through Config changes only the in-memory
\* sub-config that owns the field: a Config constructed after the
\* assignment and before save() reports for that field what a Config
\* constructed before the assignment reported, and a Config constructed
\* after save() reports the assigned value, also when the auth config file
\* did not exist before save().
C14_AssignThenSave ==
    (/\ cret.op = "Config"
     /\ cret.loaded.exc = NoExc
     /\ cret.path = config.path
     /\ last # NoAssign)
      => Config_getattr(cret.loaded, last.key) =
             (IF last.saved THEN last.value ELSE last.before)


\* the document of the global file and of the local file Config() reads:
\* the first of LOCAL_CONFIG_PATHS that holds a non-empty document
GlobalDoc == fs[get_global_path(GLOBAL_CONFIG_FILENAMES[1])]

LocalDoc ==
    IF IsDict(fs[LOCAL_CONFIG_PATHS[1]]) /\ fs[LOCAL_CONFIG_PATHS[1]] # EmptyDict
    THEN fs[LOCAL_CONFIG_PATHS[1]]
    ELSE fs[LOCAL_CONFIG_PATHS[2]]

\* a document gives verbose, gives matches-ignore under either spelling
GivesVerbose(doc) == IsDict(doc) /\ Has(doc, k_verbose)

GivesMatches(doc) ==
    IsDict(doc) /\ \E sep \in {"-", "_"} : Has(doc, <<"matches", sep, "ignore">>)

MatchesOf(doc) ==
    Get(doc, CHOOSE key \in Keys(doc) :
                 \E sep \in {"-", "_"} : key = <<"matches", sep, "ignore">>).list

\* C15: UserConfig.load without an explicit path applies the global file
\* before the local one: a scalar field given in both files is loaded with
\* the local file's value, and a list field given in both is loaded as the
\* global file's entries followed by the local file's entries.
C15_GlobalThenLocal ==
    (cret.op = "Config" /\ cret.path = None /\ cret.loaded.exc = NoExc) =>
        /\ (GivesVerbose(GlobalDoc) /\ GivesVerbose(LocalDoc)) =>
              Config_getattr(cret.loaded, k_verbose) = Get(LocalDoc, k_verbose)
        /\ (GivesMatches(GlobalDoc) /\ GivesMatches(LocalDoc)) =>
              Config_getattr(cret.loaded, k_matches_ignore).list =
                  MatchesOf(GlobalDoc) \o MatchesOf(LocalDoc)

\* Config() loaded verbose False over the global file's True, and the
\* global file's entry "two" before the local file's "one"
C15_Witness ==
    /\ cret.op = "Config" /\ cret.path = None
    /\ GivesVerbose(GlobalDoc) /\ Get(GlobalDoc, k_verbose) = Scalar("True")
    /\ GivesVerbose(LocalDoc) /\ Get(LocalDoc, k_verbose) = Scalar("False")
    /\ GivesMatches(GlobalDoc) /\ MatchesOf(GlobalDoc) = <<Scalar("two")>>
    /\ GivesMatches(LocalDoc) /\ MatchesOf(LocalDoc) = <<Scalar("one")>>
    /\ Config_getattr(cret.loaded, k_verbose) = Scalar("False")
    /\ Config_getattr(cret.loaded, k_matches_ignore) =
           List(<<Scalar("two"), Scalar("one")>>)


\* C16: replace_in_keys(data, "-", "_") followed by
\* replace_in_keys(data, "_", "-") leaves every nested dict/list data equal
\* to its original value, so that an auth config loaded from a file and
\* dumped back with to_dict plus the key replacement equals the file's
\* data, the host-name keys of the hosts mapping included.
C16_KeysRoundTrip ==
    (\/ kops = <<<<"-", "_">>, <<"_", "-">>>>
     \/ kops = <<<<"load", "to_dict">>>>)
      => PyEq(kdata, korig)


(***************************************************************************)
(* Properties of the raw patch header, checked under SpecHeader.           *)
(***************************************************************************)

\* the tuples of the header lines before the first defective one
FirstDefect(kinds) ==
    IF \A i \in DOMAIN kinds : kinds[i] = "ok" THEN Len(kinds) + 1
    ELSE CHOOSE i \in DOMAIN kinds :
             kinds[i] # "ok" /\ \A j \in 1..(i - 1) : kinds[j] = "ok"

ExpectedTuples(kinds) ==
    [i \in 1..(FirstDefect(kinds) - 1) |->
        <<NameOf(i), ExpectedKind(StatusAt[i])>>]

\* C17 as stated: when the header passed to whole-header parsing does not
\* begin with a colon, a leading blank line is synthesized before the
\* boundary split, and every header line, the first one included, yields
\* one (path, ChangeKind) tuple in order.
C17_BlankUnlessColon ==
    (hgen.started /\ Len(header) > 0 /\ header[1] # ":") =>
        /\ hgen.blank
        /\ hgen.done => hgen.yielded = ExpectedTuples(hshape.kinds)

\* C17, amended: the blank line is synthesized exactly when the header
\* begins with a colon; a header that begins with the commit information
\* is split as it is.  Either way the first split segment is discarded and
\* every header line, the first one included, yields one (path,
\* ChangeKind) tuple in order, up to the first line that does not parse.
C17_BlankIfColon ==
    (hgen.started /\ Len(header) > 0) =>
        /\ hgen.blank <=> header[1] = ":"
        /\ Len(hgen.yielded) <= FirstDefect(hshape.kinds) - 1
        /\ \A i \in DOMAIN hgen.yielded :
              hgen.yielded[i] = ExpectedTuples(hshape.kinds)[i]
        /\ hgen.done =>
              /\ hgen.yielded = ExpectedTuples(hshape.kinds)
              /\ hgen.exc = NoExc <=>
                    FirstDefect(hshape.kinds) = Len(hshape.kinds) + 1

\* a header that begins with a colon was parsed to its end: two lines, two
\* tuples, the first line's tuple first
C17_Witness ==
    /\ ~hshape.meta
    /\ hshape.kinds = <<"ok", "ok">>
    /\ header[1] = ":"
    /\ hgen.done /\ hgen.blank /\ hgen.exc = NoExc
    /\ hgen.yielded = <<<<NameOf(1), "MODIFY">>, <<NameOf(2), "DELETE">>>>


(***************************************************************************)
(* Properties of the pairing of header entries and diff segments, checked  *)
(* under Spec.                                                             *)
(***************************************************************************)

\* the Scannables of one section: header entry i with diff segment i, for
\* i up to the smaller count, without the excluded and the hunk-less ones
RECURSIVE SectionFiles(_, _, _)
SectionFiles(sec, i, excl) ==
    IF i > Len(sec.kinds) \/ i > Len(sec.hunks) THEN <<>>
    ELSE (IF NameOf(i) \notin excl /\ sec.hunks[i]
          THEN <<StringScannable(NameOf(i), HunkText(i),
                                 ExpectedKind(StatusAt[i]))>>
          ELSE <<>>)
             \o SectionFiles(sec, i + 1, excl)

\* the sections in order
RECURSIVE ExpectedFiles(_, _, _)
ExpectedFiles(shape, k, excl) ==
    IF k > Len(shape) THEN <<>>
    ELSE SectionFiles(shape[k], 1, excl) \o ExpectedFiles(shape, k + 1, excl)

\* C18: pairing of header entries with diff segments is positional and
\* lenient: in a section with h header entries (lines that parse) and d
\* diff segments, entry i is paired with segment i for i up to min(h, d),
\* and when h differs from d the excess on either side is dropped without
\* any error being raised.
C18_PositionalLenient ==
    (cls = "Commit" /\ ret.op = "files" /\ printed # <<>>
       /\ ~HasDefect(printed)) =>
        /\ ret.exc = NoExc
        /\ ret.files = ExpectedFiles(printed, 1, exclusion_regexes)


(***************************************************************************)
(* Properties of one raw header line, checked under SpecLine.              *)
(***************************************************************************)

\* C19: the path returned for a raw header line is its last path token:
\* the new name when the NUL-split line has a second path (rename, copy),
\* the single path otherwise; the line ":7 M" NUL "p" yields (p, MODIFY).
\* A line with no path token at all is a parse error.
C19_LastPathToken ==
    lineResult # None =>
        /\ Len(lineShape.paths) = 0 => lineResult[1].exc.type = "ValueError"
        /\ (Len(lineShape.paths) > 0 /\ lineResult[1].exc = NoExc) =>
              lineResult[1].name = <<lineShape.paths[Len(lineShape.paths)]>>
        /\ (Len(lineShape.paths) > 0
              /\ ExpectedKind(lineShape.status) # "NONE") =>
              lineResult[1].exc = NoExc
        /\ (lineShape.status = <<"M">> /\ lineShape.paths = <<"p">>) =>
              /\ lineResult[1].name = <<"p">>
              /\ lineResult[1].filemode = Filemode_MODIFY

\* a rename line with the two paths p and q was parsed: q is returned
C19_Witness ==
    /\ lineResult # None
    /\ lineShape.status = <<"R">>
    /\ lineShape.paths = <<"p", "q">>
    /\ lineResult[1].exc = NoExc
    /\ lineResult[1].name = <<"q">>
    /\ lineResult[1].filemode = Filemode_RENAME


\* C20: exclusion never shifts the pairing: an excluded path consumes its
\* own diff segment, so for every exclusion set each Scannable files()
\* returns carries the content of the diff segment at the position of its
\* header entry, and the list is the list of the same patch without
\* exclusion with the excluded paths removed, in section order then header
\* order, a path that occurs in two parent sections occurring twice.
C20_ExclusionKeepsPairing ==
    (cls = "Commit" /\ ret.op = "files" /\ ret.exc = NoExc
       /\ printed # <<>>) =>
        /\ ret.files =
              SelectSeq(ExpectedFiles(printed, 1, {}),
                        LAMBDA f : f.url \notin exclusion_regexes)
        /\ \A j \in DOMAIN ret.files :
              \E i \in 1..Len(Letter) :
                  /\ ret.files[j].url = NameOf(i)
                  /\ ret.files[j].content = HunkText(i)
                  /\ \E k \in 1..Len(printed) :
                        /\ i <= Len(printed[k].kinds)
                        /\ i <= Len(printed[k].hunks)
                        /\ printed[k].hunks[i]

\* the first path of a section is excluded and files() returned the
\* second one with the content of the second diff segment
C20_Witness ==
    /\ cls = "Commit"
    /\ ret.op = "files"
    /\ ret.exc = NoExc
    /\ exclusion_regexes = {NameOf(1)}
    /\ Len(printed) = 1
    /\ printed[1].kinds = <<"ok", "ok">>
    /\ printed[1].hunks = <<TRUE, TRUE>>
    /\ ret.files = <<StringScannable(NameOf(2), HunkText(2), Filemode_DELETE)>>

(***************************************************************************)
(* Properties of a failed git invocation, checked under SpecGit.           *)
(***************************************************************************)

\* the last operation invoked git and git raised
GitFailed(r) == r.git = 1 /\ r.cause = GitError

\* C21: a failed git invocation leaves the Commit unchanged and is not
\* memoized: when git raises during patch(), files() or info(), the cached
\* patch, the cached files and the cached info are unset before and after
\* the access and the next access invokes git again; through patch() the
\* error of git propagates unchanged, through files() it is raised as a
\* PatchParseError.
C21_FailedGitNotMemoized ==
    [][/\ GitFailed(ret') =>
             /\ <<sha, exclusion_regexes, _patch, _files, _info>>'
                    = <<sha, exclusion_regexes, _patch, _files, _info>>
             /\ _patch' = None /\ _files' = <<>> /\ _info' = None
             /\ ret'.op = "patch" => ret'.exc = GitError
             /\ ret'.op = "files" =>
                    /\ ret'.exc.type = "PatchParseError"
                    /\ ret'.exc = PatchParseError(sha, GitError)
       /\ GitFailed(ret) =>
             /\ ret'.git = 1
             /\ ret'.cmd = GitCommand(sha)
             /\ ret'.exc = NoExc => _patch' # None]_vars

\* files was read, git raised, the PatchParseError was raised and nothing
\* is cached
C21_Witness ==
    /\ ret.op = "files"
    /\ GitFailed(ret)
    /\ ret.exc = PatchParseError(sha, GitError)
    /\ _patch = None /\ _files = <<>> /\ _info = None

====
